---------------------------- MODULE Spec2Model ----------------------------
(***************************************************************************)
(* Model of the defect-detection enrichment pipeline:                      *)
(*   - the enrichment worker   (azure_foundry_reasoner.py)                 *)
(*   - the monitor / renderer  (mqtt_listener.py)                          *)
(*   - the producer            (cv_publisher.py)                           *)
(*                                                                         *)
(* Text is a sequence of characters; a character is named by its class,    *)
(* the classes being the ones the worker's sanitization tells apart.       *)
(* Instants are natural numbers (ticks of the worker's UTC clock).         *)
(***************************************************************************)
EXTENDS Integers, Sequences, FiniteSets, TLC

(***************************************************************************)
(* Bounds of the model.                                                    *)
(***************************************************************************)
MaxLen == 1          \* longest text the reasoning backend returns (SpecJson)
MaxTextLen == 3      \* longest text the reasoning backend returns (SpecText)
MaxTime == 1         \* last instant of the clock
MaxDeliveries == 2   \* messages delivered to the worker
MaxMonitorMsgs == 2  \* messages delivered to the monitor
MaxImages == 3       \* image files the producer can find in IMG_DIR
MaxTicks == 4        \* iterations of the producer's loop
MaxConnects == 2     \* successful connects of the worker (SpecReconnect)

(***************************************************************************)
(* Characters.                                                             *)
(*   "a"    any printable character the sanitization leaves alone          *)
(*   " "    space                                                          *)
(*   LF CR TAB     \n \r \t                                                *)
(*   DQ BS         double quote, backslash                                 *)
(*   SQ SL         single quote, slash (what DQ and BS are replaced by)    *)
(*   CTL    a control character of [\x00-\x1f\x7f-\x9f] other than \n\r\t  *)
(*   NBSP   a Unicode space outside the control range, such as U+00A0     *)
(* The three tokens below stand for the fixed texts of the code, which     *)
(* hold only letters, single inner spaces and a colon.                     *)
(***************************************************************************)
SP == " "
AgentRunFailedPrefix == "Agent run failed:"
ImageAnalysisFailedPrefix == "Image analysis failed:"
NoResponseText == "No analysis response received from agent"

InputChars == {"a", SP, "LF", "CR", "TAB", "DQ", "BS", "CTL", "NBSP"}
Chars == InputChars \cup {"SQ", "SL", AgentRunFailedPrefix, ImageAnalysisFailedPrefix, NoResponseText}

\* str.isspace(): what str.strip() removes and what \s matches
IsSpace(c) == c \in {SP, "LF", "CR", "TAB", "NBSP"}
\* the class [\x00-\x1f\x7f-\x9f]
IsControl(c) == c \in {"LF", "CR", "TAB", "CTL"}

Strings(n) == UNION {[1..k -> InputChars] : k \in 0..n}
\* str(e) of an exception, run.last_error, and the agent's response in Spec:
\* at most one character of any class
ErrTexts == {<<>>} \cup {<<c>> : c \in InputChars}

(***************************************************************************)
(* Sanitization of the reasoning text (on_message, lines 312-320).         *)
(***************************************************************************)
RECURSIVE LStrip(_)
LStrip(s) == IF s # <<>> /\ IsSpace(Head(s)) THEN LStrip(Tail(s)) ELSE s

RECURSIVE RStrip(_)
RStrip(s) ==
    IF s # <<>> /\ IsSpace(s[Len(s)]) THEN RStrip(SubSeq(s, 1, Len(s) - 1)) ELSE s

Strip(s) == RStrip(LStrip(s))

Replace(s, old, new) == [i \in 1..Len(s) |-> IF s[i] = old THEN new ELSE s[i]]

\* re.sub(r'[\x00-\x1f\x7f-\x9f]', ' ', s)
SubControl(s) == [i \in 1..Len(s) |-> IF IsControl(s[i]) THEN SP ELSE s[i]]

\* re.sub(r'\s+', ' ', s)
NoCollapse(s) == s
RECURSIVE CollapseSpace(_)
CollapseSpace(s) ==
    IF s = <<>> THEN <<>>
    ELSE IF IsSpace(Head(s))
         THEN <<SP>> \o CollapseSpace(LStrip(s))
         ELSE <<Head(s)>> \o CollapseSpace(Tail(s))

NormalizeNewlines(s) == Replace(Replace(Replace(s, "LF", SP), "CR", SP), "TAB", SP)

ReplaceQuotesNoBackslash(s) == Replace(s, "DQ", "SQ")
ReplaceQuotes(s) == Replace(Replace(s, "DQ", "SQ"), "BS", "SL")

SanitizeNoFinalStrip(s) ==
    CollapseSpace(SubControl(ReplaceQuotes(NormalizeNewlines(Strip(s)))))
Sanitize(s) ==
    Strip(CollapseSpace(SubControl(ReplaceQuotes(NormalizeNewlines(Strip(s))))))

(***************************************************************************)
(* Raw events.  A JSON object is a function from its keys to values.       *)
(***************************************************************************)
NULL == "null"
EMPTY == ""
LIST == "[list]"          \* a truthy value that is no path: os.path.exists raises
ExistingFiles == {"a.jpg"}
ImagePathValues == {NULL, EMPTY, LIST, "a.jpg", "missing.jpg"}

NoFields == [k \in {} |-> 0]
OptField(k, vals) == {NoFields} \cup {k :> v : v \in vals}

RawObjects ==
    {a @@ b @@ c @@ ("line_id" :> "line1") :
        a \in OptField("image_path", ImagePathValues),
        b \in OptField("timestamp", 0..MaxTime),
        c \in OptField("reasoning", {<<"a">>})}

\* what msg.payload can be: bytes that do not decode, text that is no JSON,
\* JSON that is no object, a JSON object
Payloads ==
    {[kind |-> k, obj |-> NoFields] : k \in {"bad_utf8", "bad_json", "non_object"}}
    \cup {[kind |-> "object", obj |-> o] : o \in RawObjects}

Get(obj, k) == IF k \in DOMAIN obj THEN obj[k] ELSE NULL

\* `not img_path`
Falsy(v) == v \in {NULL, EMPTY}
\* os.path.exists(img_path)
PathExistsAlways(p) == TRUE
PathExists(p) == p \in ExistingFiles

\* line 303: if not img_path or not os.path.exists(img_path)
ShouldDropNoExistsCheck(img_path) == Falsy(img_path)
ShouldDrop(img_path) == Falsy(img_path) \/ ~PathExists(img_path)

AGENT_ID == "AGENTIDfromPortal"
MODEL_USED == "azure_foundry_agent"
EnrichmentKeys == {"reasoning", "model_used", "agent_id", "analyzed_at"}

\* line 330: datetime.now(timezone.utc) read when the enriched event is built
AnalyzedAtStartup(clock) == 0
AnalyzedAt(clock) == clock

\* lines 325-331: {**data, "reasoning": ..., "model_used": ..., ...}
EnrichedNoMerge(data, reasoning, clock) ==
    [k \in EnrichmentKeys |->
        CASE k = "reasoning" -> reasoning
          [] k = "model_used" -> MODEL_USED
          [] k = "agent_id" -> AGENT_ID
          [] OTHER -> AnalyzedAt(clock)]
EnrichedDataWins(data, reasoning, clock) ==
    [k \in DOMAIN data \cup EnrichmentKeys |->
        IF k \in DOMAIN data THEN data[k]
        ELSE CASE k = "reasoning" -> reasoning
               [] k = "model_used" -> MODEL_USED
               [] k = "agent_id" -> AGENT_ID
               [] OTHER -> AnalyzedAt(clock)]
Enriched(data, reasoning, clock) ==
    [k \in DOMAIN data \cup EnrichmentKeys |->
        CASE k = "reasoning" -> reasoning
          [] k = "model_used" -> MODEL_USED
          [] k = "agent_id" -> AGENT_ID
          [] k = "analyzed_at" -> AnalyzedAt(clock)
          [] OTHER -> data[k]]

(***************************************************************************)
(* analyze_image: what it hands back to on_message.                        *)
(***************************************************************************)
NoRet == [kind |-> "none", value |-> <<>>]
Returned(text) == [kind |-> "str", value |-> text]
Raised(text) == [kind |-> "raise", value |-> text]

\* lines 200-203
AgentRunFailedGeneric(last_error) == Returned(<<NoResponseText>>)
AgentRunFailed(last_error) == Returned(<<AgentRunFailedPrefix, SP>> \o last_error)

\* lines 235-239
AnalyzeExceptReraise(e) == Raised(e)
AnalyzeExcept(e) == Returned(<<ImageAnalysisFailedPrefix, SP>> \o e)

\* lines 213-221
AgentResponse(text) == Returned(IF text = <<>> THEN <<NoResponseText>> ELSE text)

\* where control goes after a failed run: the return of line 203
AfterRunFailedRetry == "a_run"
AfterRunFailed == "o_rest"


(***************************************************************************)
(* Topics and subscriptions.  A topic is the sequence of its levels; a     *)
(* filter matches as the broker matches it, "#" standing for any number    *)
(* of remaining levels.                                                    *)
(***************************************************************************)
RAW_TOPIC == "factory/line1/defects"
ENRICHED_TOPIC == "factory/line1/defects/enriched"

\* azure_foundry_reasoner.py lines 61-62, cv_publisher.py line 81 (defaults)
MQTT_INPUT_WILDCARD == "factory/line1/defects/#"
MQTT_INPUT_TOPIC == "factory/line1/defects"
MQTT_OUTPUT_TOPIC == "factory/line1/defects/enriched"
MQTT_TOPIC == "factory/line1/defects"

Levels(t) ==
    CASE t = "factory/line1/defects" -> <<"factory", "line1", "defects">>
      [] t = "factory/line1/defects/enriched" -> <<"factory", "line1", "defects", "enriched">>
      [] t = "factory/line1/defects/#" -> <<"factory", "line1", "defects", "#">>

RECURSIVE LevelsMatch(_, _)
LevelsMatch(f, t) ==
    IF f = <<>> THEN t = <<>>
    ELSE IF Head(f) = "#" THEN TRUE
    ELSE IF t = <<>> THEN FALSE
    ELSE Head(f) = Head(t) /\ LevelsMatch(Tail(f), Tail(t))

Matches(filter, topic) == LevelsMatch(Levels(filter), Levels(topic))

\* the qos of a subscribe call without a qos argument (paho's default)
DefaultQos == 0
\* azure_foundry_reasoner.py line 257: subscribe(MQTT_INPUT_TOPIC, qos=1)
WorkerSubscribeQos == 1
\* azure_foundry_reasoner.py line 345: publish(MQTT_OUTPUT_TOPIC, json_message, qos=0)
WorkerPublishQos == 0

(***************************************************************************)
(* JSON text of an event (json.dumps / json.loads of the standard          *)
(* library).  The text of an object is a function from its keys to         *)
(* literals; a literal has a kind, "string", "number" or "NaN" (the token  *)
(* json.dumps writes for a float that is not a number, which json.loads    *)
(* reads back and which is no JSON value), and a text.                     *)
(***************************************************************************)
NAN == "NaN"
ConfidenceValues == {"0.7", NAN}

EscapeChar(c) ==
    CASE c = "DQ" -> <<"BS", "DQ">>
      [] c = "BS" -> <<"BS", "BS">>
      [] c = "LF" -> <<"BS", "n">>
      [] c = "CR" -> <<"BS", "r">>
      [] c = "TAB" -> <<"BS", "t">>
      [] c = "CTL" -> <<"BS", "u001f">>
      [] c = "NBSP" -> <<"BS", "u00a0">>
      [] OTHER -> <<c>>

UnescapeCode(x) ==
    CASE x = "n" -> "LF"
      [] x = "r" -> "CR"
      [] x = "t" -> "TAB"
      [] x = "u001f" -> "CTL"
      [] x = "u00a0" -> "NBSP"
      [] OTHER -> x

RECURSIVE JsonEscape(_)
JsonEscape(s) == IF s = <<>> THEN <<>> ELSE EscapeChar(Head(s)) \o JsonEscape(Tail(s))

RECURSIVE JsonUnescape(_)
JsonUnescape(s) ==
    IF s = <<>> THEN <<>>
    ELSE IF Head(s) = "BS" /\ Len(s) >= 2
         THEN <<UnescapeCode(s[2])>> \o JsonUnescape(Tail(Tail(s)))
         ELSE <<Head(s)>> \o JsonUnescape(Tail(s))

JsonLiteral(k, v) ==
    IF k = "confidence"
    THEN [kind |-> IF v = NAN THEN "NaN" ELSE "number", text |-> v]
    ELSE IF k = "reasoning"
    THEN [kind |-> "string", text |-> JsonEscape(v)]
    ELSE [kind |-> "string", text |-> v]

\* json.dumps(obj), allow_nan left at its default
JsonDumps(obj) == [k \in DOMAIN obj |-> JsonLiteral(k, obj[k])]

\* json.loads(text)
JsonLoads(text) ==
    [k \in DOMAIN text |->
        IF k = "reasoning" THEN JsonUnescape(text[k].text) ELSE text[k].text]

\* lines 334-340: json.loads(json_message) does not raise
ValidationPasses(text) == TRUE

(***************************************************************************)
(* The worker's event loop and exception handlers.                         *)
(***************************************************************************)
\* line 392: loop_forever calls on_message from the thread that reads the
\* socket, so the next message is read when the callback has returned
CanDeliverDuringCallback(p) == p \notin {"connecting", "exited"}
CanDeliver(p) == p = "idle"

\* lines 360-363: the handler logs str(e) and the traceback
WorkerHandlerRedecodes(m) == m.kind # "bad_utf8"
WorkerHandlerReturns(m) == TRUE

\* lines 289-310: on_message keeps message_count and nothing else of the
\* earlier deliveries, so no delivery is recognised as a repeat
IsDuplicateOfLast(m, last) == m = last
IsDuplicate(m, last) == FALSE

\* lines 195-198: create_and_process is called without a timeout, and
\* on_message sets none around analyze_image (line 310)
TimesOutAfterATick(clock, started) == clock > started
TimesOut(clock, started) == FALSE

\* lines 226-231: the failure of threads.delete is logged and the response
\* already extracted is returned (line 233)
AfterDeleteFailedPropagates(response) == AnalyzeExcept(<<>>)
AfterDeleteFailed(response) == response

\* lines 345-358: after a publish that failed or raised, on_message logs and
\* runs to its end
AfterPublishFailedRetry == "o_rest"
AfterPublishFailed == "idle"

\* lines 251-264: on_connect subscribes whenever rc == 0, whatever the
\* number n of earlier successful connects
SubscribesOnFirstConnect(outcome, n) == outcome = "ok" /\ n = 0
SubscribesOnConnect(outcome, n) == outcome = "ok"

\* `except Exception` (lines 235, 360, 398) and `except KeyboardInterrupt`
\* (line 394): KeyboardInterrupt is no subclass of Exception
Catches(clause, exc) == clause = exc \/ (clause = "Exception" /\ exc # "KeyboardInterrupt")

VARIABLES
    pc,             \* worker: where the single thread of the worker is
    msg,            \* worker: payload of the delivery being (or last) handled
    message_count,  \* worker: global message_count
    now,            \* the worker's UTC clock
    received_at,    \* clock reading when on_message was entered
    thread,         \* per-analysis thread: "none", "open", "deleted", "delete_failed"
    runs,           \* runs started by create_and_process for this delivery
    fault,          \* how the analysis of this delivery failed, "none" if not
    ret,            \* what analyze_image returned for this delivery
    log,            \* notices logged by on_message for this delivery
    out,            \* publish calls of this delivery: [payload, json, topic, qos, rc, id]
    w_conn,         \* worker: "none", "connected", "disconnected"
    w_subs,         \* worker: subscribe calls made on this connection, [filter, qos]
    connects,       \* worker: calls of on_connect with rc 0
    uncalled,       \* history: deliveries naming an existing image, less the
                    \*          calls of analyze_image
    unpublished,    \* history: deliveries naming an existing image, less the
                    \*          publish calls
    enriching,      \* history: deliveries whose analysis began and has not ended
    from_self,      \* history: the worker was handed a message it published
    signal_at,      \* history: pc at which the interrupt arrived, "none" if none
    m_pc,           \* monitor: "connecting", "running", "crashed", "stopped", "failed"
    m_msg,          \* monitor: last message handed to on_message
    m_out,          \* monitor: how on_message ended for it
    m_count,        \* monitor: messages handled
    m_subs,         \* monitor: subscribe calls made, [filter, qos]
    p_pc,           \* producer: "start", "scan", "loop", "exited", "stopped"
    p_connects,     \* producer: outcomes of the connect calls made
    p_images,       \* producer: the list `images`
    p_i,            \* producer: the index i
    p_message_count,\* producer: message_count
    p_attempts,     \* producer: publish calls, [img, topic, outcome, printed]
    img_size,       \* image pre-processing: <<width, height>> of the file opened
    enc_size        \* image pre-processing: <<width, height>> of the JPEG encoded

dvars == <<msg, message_count, now, received_at, thread, runs, fault, ret, log, out>>
cvars == <<w_conn, w_subs, connects>>
hvars == <<uncalled, unpublished, enriching, from_self, signal_at>>
wvars == <<pc, dvars, cvars, hvars>>
mvars == <<m_pc, m_msg, m_out, m_count, m_subs>>
pvars == <<p_pc, p_connects, p_images, p_i, p_message_count, p_attempts>>
ivars == <<img_size, enc_size>>
vars == <<pc, msg, message_count, now, received_at, thread, runs, fault, ret, log, out,
          w_conn, w_subs, connects, uncalled, unpublished, enriching, from_self, signal_at,
          m_pc, m_msg, m_out, m_count, m_subs,
          p_pc, p_connects, p_images, p_i, p_message_count, p_attempts,
          img_size, enc_size>>

NoMsg == [kind |-> "none", obj |-> NoFields]
NoMonitorMsg == [topic |-> "none", kind |-> "none", obj |-> NoFields]

InitDelivery ==
    /\ msg = NoMsg
    /\ message_count = 0
    /\ now = 0
    /\ received_at = 0
    /\ thread = "none"
    /\ runs = 0
    /\ fault = "none"
    /\ ret = NoRet
    /\ log = <<>>
    /\ out = <<>>

InitHistory ==
    /\ uncalled = 0
    /\ unpublished = 0
    /\ enriching = {}
    /\ from_self = FALSE
    /\ signal_at = "none"

InitMonitor ==
    /\ m_pc = "connecting"
    /\ m_msg = NoMonitorMsg
    /\ m_out = "none"
    /\ m_count = 0
    /\ m_subs = {}

InitProducer ==
    /\ p_pc = "start"
    /\ p_connects = <<>>
    /\ p_images = <<>>
    /\ p_i = 0
    /\ p_message_count = 0
    /\ p_attempts = <<>>

NoImage ==
    /\ img_size = <<0, 0>>
    /\ enc_size = <<0, 0>>

Init ==
    /\ pc = "connecting"
    /\ InitDelivery
    /\ w_conn = "none"
    /\ w_subs = {}
    /\ connects = 0
    /\ InitHistory
    /\ InitMonitor
    /\ InitProducer
    /\ NoImage

InFlight == {"a_image", "a_thread", "a_message", "a_run", "a_list", "a_delete"}

TypeOK ==
    /\ pc \in {"connecting", "idle", "o_rest", "exited"} \cup InFlight
    /\ msg.kind \in {"none", "bad_utf8", "bad_json", "non_object", "object"}
    /\ message_count \in 0..MaxDeliveries
    /\ now \in 0..MaxTime
    /\ received_at \in 0..now
    /\ thread \in {"none", "open", "deleted", "delete_failed"}
    /\ runs \in 0..1
    /\ fault \in {"none", "image", "thread", "message", "run", "run_failed", "list",
                  "signal", "timeout"}
    /\ ret.kind \in {"none", "str", "raise"}
    /\ Len(log) <= 5
    /\ Len(out) <= 1
    /\ w_conn \in {"none", "connected", "lost", "disconnected"}
    /\ connects \in 0..MaxConnects
    /\ \A s \in w_subs : s.qos \in 0..2
    /\ uncalled = 0
    /\ unpublished \in 0..1
    /\ enriching \subseteq 1..message_count
    /\ from_self \in BOOLEAN
    /\ signal_at \in {"none", "connecting", "idle", "o_rest"} \cup InFlight
    /\ m_pc \in {"connecting", "running", "crashed", "stopped", "failed"}
    /\ m_out \in {"none", "rendered", "reported", "raised"}
    /\ m_count \in 0..MaxMonitorMsgs
    /\ \A s \in m_subs : s.qos \in 0..2
    /\ p_pc \in {"start", "scan", "loop", "exited", "stopped"}
    /\ Len(p_connects) <= 1
    /\ Len(p_images) <= MaxImages
    /\ p_i = p_message_count
    /\ p_message_count \in 0..MaxTicks
    /\ Len(p_attempts) = p_message_count
    /\ img_size \in Nat \X Nat
    /\ enc_size \in Nat \X Nat

(***************************************************************************)
(* The worker.                                                             *)
(***************************************************************************)
\* the clock advances
Tick ==
    /\ pc # "exited"
    /\ now < MaxTime
    /\ now' = now + 1
    /\ IF pc = "a_run" /\ TimesOut(now + 1, received_at)
       THEN \* the call is given up and control is back in on_message
            /\ fault' = "timeout"
            /\ ret' = AnalyzeExcept(<<>>)
            /\ pc' = "o_rest"
       ELSE UNCHANGED <<pc, fault, ret>>
    /\ UNCHANGED <<msg, message_count, received_at, thread, runs, log, out>>
    /\ UNCHANGED <<cvars, hvars, mvars, pvars, ivars>>

\* the worker leaves main: client.disconnect() of lines 396 and 402
Exit ==
    /\ pc' = "exited"
    /\ w_conn' = "disconnected"

\* main lines 384-392 and on_connect lines 251-264.  outcome is "ok" (the
\* broker accepts), "refused" (on_connect is called with rc other than 0)
\* or "raise" (client.connect raises)
WorkerConnect(outcome) ==
    /\ pc = "connecting" \/ (pc = "idle" /\ w_conn = "lost")
    /\ CASE outcome = "ok" ->
              /\ pc' = "idle"
              /\ w_conn' = "connected"
              /\ connects' = connects + 1
              /\ w_subs' = IF SubscribesOnConnect(outcome, connects)
                            THEN w_subs \cup {[filter |-> MQTT_INPUT_TOPIC,
                                               qos |-> WorkerSubscribeQos]}
                            ELSE w_subs
         [] outcome = "refused" ->
              /\ w_subs' = IF SubscribesOnConnect(outcome, connects)
                            THEN w_subs \cup {[filter |-> MQTT_INPUT_TOPIC,
                                               qos |-> WorkerSubscribeQos]}
                            ELSE w_subs
              /\ UNCHANGED <<pc, w_conn, connects>>
         [] OTHER ->
              \* client.connect raises in main (lines 398-402); a reconnect
              \* that raises is tried again by loop_forever
              /\ IF pc = "connecting" THEN Exit ELSE UNCHANGED <<pc, w_conn>>
              /\ UNCHANGED <<w_subs, connects>>
    /\ UNCHANGED <<dvars, hvars, mvars, pvars, ivars>>

\* the connection is lost while loop_forever waits for the next message
\* (on_disconnect, lines 273-281, logs it); loop_forever then reconnects
WorkerDisconnect ==
    /\ pc = "idle"
    /\ w_conn = "connected"
    /\ connects < MaxConnects
    /\ w_conn' = "lost"
    /\ w_subs' = {}
    /\ UNCHANGED <<pc, connects, dvars, hvars, mvars, pvars, ivars>>

\* the payload is a JSON object whose image_path names an existing file
NamesExistingImage(m) ==
    /\ m.kind = "object"
    /\ "image_path" \in DOMAIN m.obj
    /\ m.obj["image_path"] \in ExistingFiles

\* what the broker can hand to the worker: any payload published on the raw
\* topic, and what the worker itself has published
Incoming ==
    {[topic |-> MQTT_TOPIC, payload |-> m, echo |-> FALSE] : m \in Payloads}
    \cup {[topic |-> out[i].topic,
           payload |-> [kind |-> "object", obj |-> out[i].payload],
           echo |-> TRUE] : i \in {j \in 1..Len(out) : out[j].rc = "ok"}}

\* on_message, lines 292-310: from the delivery up to the call of analyze_image,
\* or to the return when the message is dropped or rejected
Deliver(d) ==
    LET m == d.payload IN
    /\ CanDeliver(pc)
    /\ w_conn = "connected"
    /\ \E s \in w_subs : Matches(s.filter, d.topic)
    /\ message_count < MaxDeliveries
    /\ message_count' = message_count + 1
    /\ msg' = m
    /\ received_at' = now
    /\ thread' = "none"
    /\ runs' = 0
    /\ fault' = "none"
    /\ ret' = NoRet
    /\ out' = <<>>
    /\ from_self' = (from_self \/ d.echo)
    /\ unpublished' = unpublished + (IF NamesExistingImage(m) THEN 1 ELSE 0)
    /\ IF m.kind # "object"
       THEN \* json.loads / decode / data.get raises: lines 360-363
            /\ IF WorkerHandlerReturns(m)
               THEN /\ log' = <<"received", "error">>
                    /\ pc' = "idle"
                    /\ UNCHANGED w_conn
               ELSE /\ log' = <<"received">>
                    /\ Exit
            /\ uncalled' = uncalled + (IF NamesExistingImage(m) THEN 1 ELSE 0)
            /\ UNCHANGED enriching
       ELSE LET img_path == Get(m.obj, "image_path") IN
            IF ~Falsy(img_path) /\ img_path = LIST
            THEN \* os.path.exists raises TypeError: lines 360-363
                 /\ log' = <<"received", "error">>
                 /\ pc' = "idle"
                 /\ uncalled' = uncalled + (IF NamesExistingImage(m) THEN 1 ELSE 0)
                 /\ UNCHANGED <<w_conn, enriching>>
            ELSE IF ShouldDrop(img_path)
            THEN /\ log' = <<"received", "drop">>
                 /\ pc' = "idle"
                 /\ uncalled' = uncalled + (IF NamesExistingImage(m) THEN 1 ELSE 0)
                 /\ UNCHANGED <<w_conn, enriching>>
            ELSE IF IsDuplicate(m, msg)
            THEN /\ log' = <<"received", "duplicate">>
                 /\ pc' = "idle"
                 /\ uncalled' = uncalled + (IF NamesExistingImage(m) THEN 1 ELSE 0)
                 /\ UNCHANGED <<w_conn, enriching>>
            ELSE /\ log' = <<"received", "processing">>
                 /\ pc' = "a_image"
                 /\ uncalled' = uncalled + (IF NamesExistingImage(m) THEN 1 ELSE 0) - 1
                 /\ enriching' = enriching \cup {message_count + 1}
                 /\ UNCHANGED w_conn
    /\ UNCHANGED <<now, w_subs, connects, signal_at>>
    /\ UNCHANGED <<mvars, pvars, ivars>>

\* analyze_image leaves through its except clause (lines 235-239)
Except(step, e) ==
    /\ fault' = step
    /\ ret' = AnalyzeExcept(e)
    /\ pc' = "o_rest"

\* line 145: image_to_base64_url(image_path)
ImageLoad ==
    /\ pc = "a_image"
    /\ \/ /\ pc' = "a_thread"
          /\ UNCHANGED <<fault, ret>>
       \/ \E e \in ErrTexts : Except("image", e)
    /\ UNCHANGED <<msg, message_count, now, received_at, thread, runs, log, out>>
    /\ UNCHANGED <<cvars, hvars, mvars, pvars, ivars>>

\* line 148: threads.create()
ThreadCreate ==
    /\ pc = "a_thread"
    /\ \/ /\ thread' = "open"
          /\ pc' = "a_message"
          /\ UNCHANGED <<fault, ret>>
       \/ /\ \E e \in ErrTexts : Except("thread", e)
          /\ UNCHANGED thread
    /\ UNCHANGED <<msg, message_count, now, received_at, runs, log, out>>
    /\ UNCHANGED <<cvars, hvars, mvars, pvars, ivars>>

\* lines 186-190: messages.create(...)
MessageCreate ==
    /\ pc = "a_message"
    /\ \/ /\ pc' = "a_run"
          /\ UNCHANGED <<fault, ret>>
       \/ \E e \in ErrTexts : Except("message", e)
    /\ UNCHANGED <<msg, message_count, now, received_at, thread, runs, log, out>>
    /\ UNCHANGED <<cvars, hvars, mvars, pvars, ivars>>

\* lines 195-205: runs.create_and_process(...) and the check of run.status
RunProcess ==
    /\ pc = "a_run"
    /\ runs' = runs + 1
    /\ \/ \* the run ends in a status other than "failed"
          /\ pc' = "a_list"
          /\ UNCHANGED <<fault, ret>>
       \/ \* run.status == "failed"
          \E last_error \in ErrTexts :
             /\ fault' = "run_failed"
             /\ ret' = AgentRunFailed(last_error)
             /\ pc' = AfterRunFailed
       \/ \E e \in ErrTexts : Except("run", e)
    /\ UNCHANGED <<msg, message_count, now, received_at, thread, log, out>>
    /\ UNCHANGED <<cvars, hvars, mvars, pvars, ivars>>

\* lines 208-224: messages.list(...) and the extraction of the response
ListMessages ==
    /\ pc = "a_list"
    /\ \/ \E text \in ErrTexts :
             /\ ret' = AgentResponse(text)
             /\ pc' = "a_delete"
             /\ UNCHANGED fault
       \/ \E e \in ErrTexts : Except("list", e)
    /\ UNCHANGED <<msg, message_count, now, received_at, thread, runs, log, out>>
    /\ UNCHANGED <<cvars, hvars, mvars, pvars, ivars>>

\* lines 226-233: threads.delete(thread.id), its failure logged and swallowed
ThreadDelete ==
    /\ pc = "a_delete"
    /\ \E ok \in BOOLEAN :
          /\ thread' = IF ok THEN "deleted" ELSE "delete_failed"
          /\ ret' = IF ok THEN ret ELSE AfterDeleteFailed(ret)
    /\ pc' = "o_rest"
    /\ UNCHANGED <<msg, message_count, now, received_at, runs, fault, log, out>>
    /\ UNCHANGED <<cvars, hvars, mvars, pvars, ivars>>

\* on_message, lines 312-363: sanitize, build, validate, publish.
\* rc is how client.publish ends: "ok", "err" (a return code other than
\* MQTT_ERR_SUCCESS) or "raise"
Rest(rc) ==
    /\ pc = "o_rest"
    /\ IF ret.kind = "raise"
       THEN \* lines 360-363
            /\ log' = log \o <<"error">>
            /\ UNCHANGED <<out, unpublished>>
       ELSE LET enriched == Enriched(msg.obj, Sanitize(ret.value), now)
                json_message == JsonDumps(enriched) IN
            IF ~ValidationPasses(json_message)
            THEN \* lines 338-340
                 /\ log' = log \o <<"json_error">>
                 /\ UNCHANGED <<out, unpublished>>
            ELSE /\ out' = out \o <<[payload |-> enriched,
                                     json |-> json_message,
                                     topic |-> MQTT_OUTPUT_TOPIC,
                                     qos |-> WorkerPublishQos,
                                     rc |-> rc,
                                     id |-> message_count]>>
                 /\ unpublished' = unpublished - 1
                 /\ log' = log \o <<"validated",
                                    CASE rc = "ok" -> "sent"
                                      [] rc = "err" -> "publish_failed"
                                      [] OTHER -> "publish_exception",
                                    "completed">>
    /\ enriching' = enriching \ {message_count}
    /\ pc' = IF rc = "ok" THEN "idle" ELSE AfterPublishFailed
    /\ UNCHANGED <<msg, message_count, now, received_at, thread, runs, fault, ret>>
    /\ UNCHANGED <<cvars, uncalled, from_self, signal_at>>
    /\ UNCHANGED <<mvars, pvars, ivars>>

\* SIGINT: KeyboardInterrupt is raised in the thread of main, which is the
\* thread that runs loop_forever, on_message and analyze_image
Interrupt ==
    /\ pc # "exited"
    /\ signal_at' = pc
    /\ IF pc \in InFlight /\ Catches("Exception", "KeyboardInterrupt")
       THEN \* lines 235-239
            /\ fault' = "signal"
            /\ ret' = AnalyzeExcept(<<>>)
            /\ pc' = "o_rest"
            /\ UNCHANGED <<log, w_conn>>
       ELSE IF pc = "o_rest" /\ Catches("Exception", "KeyboardInterrupt")
       THEN \* lines 360-363
            /\ log' = log \o <<"error">>
            /\ pc' = "idle"
            /\ UNCHANGED <<fault, ret, w_conn>>
       ELSE \* lines 394-397
            /\ Catches("KeyboardInterrupt", "KeyboardInterrupt")
            /\ Exit
            /\ UNCHANGED <<fault, ret, log>>
    /\ UNCHANGED <<msg, message_count, now, received_at, thread, runs, out, w_subs,
                   connects>>
    /\ UNCHANGED <<uncalled, unpublished, enriching, from_self>>
    /\ UNCHANGED <<mvars, pvars, ivars>>

Next ==
    \/ Tick
    \/ \E outcome \in {"ok", "refused", "raise"} : WorkerConnect(outcome)
    \/ \E d \in Incoming : Deliver(d)
    \/ ImageLoad
    \/ ThreadCreate
    \/ MessageCreate
    \/ RunProcess
    \/ ListMessages
    \/ ThreadDelete
    \/ \E rc \in {"ok", "err", "raise"} : Rest(rc)
    \/ Interrupt

Spec == Init /\ [][Next]_vars

(***************************************************************************)
(* The worker at the return of analyze_image, for every text the backend   *)
(* can answer with up to MaxTextLen characters: the states of Spec in      *)
(* which an accepted event has been analysed and on_message goes on with   *)
(* lines 312-363.                                                          *)
(***************************************************************************)
AcceptedEvent ==
    ("image_path" :> "a.jpg") @@ ("timestamp" :> 0) @@ ("line_id" :> "line1")

AtReturnOfAnalyze(events, texts) ==
    /\ pc = "o_rest"
    /\ msg \in {[kind |-> "object", obj |-> o] : o \in events}
    /\ message_count = 1
    /\ now = 0
    /\ received_at = 0
    /\ runs = 1
    /\ \/ \* the run completed and the response was listed
          /\ fault = "none"
          /\ thread \in {"deleted", "delete_failed"}
          /\ ret \in {AgentResponse(text) : text \in texts}
       \/ \* the run failed
          /\ fault = "run_failed"
          /\ thread = "open"
          /\ ret \in {AgentRunFailed(e) : e \in texts}
       \/ \* the run raised
          /\ fault = "run"
          /\ thread = "open"
          /\ ret \in {AnalyzeExcept(e) : e \in texts}
    /\ log = <<"received", "processing">>
    /\ out = <<>>
    /\ w_conn = "connected"
    /\ w_subs = {[filter |-> MQTT_INPUT_TOPIC, qos |-> WorkerSubscribeQos]}
    /\ connects = 1
    /\ uncalled = 0
    /\ unpublished = 1
    /\ enriching = {1}
    /\ from_self = FALSE
    /\ signal_at = "none"
    /\ InitMonitor
    /\ InitProducer
    /\ NoImage

InitText == AtReturnOfAnalyze({AcceptedEvent}, Strings(MaxTextLen))

NextText == \E rc \in {"ok", "err", "raise"} : Rest(rc)

SpecText == InitText /\ [][NextText]_vars

(***************************************************************************)
(* The same point of the worker for the events whose confidence is a       *)
(* number, is not a number (NaN) or is absent.                             *)
(***************************************************************************)
JsonEvents ==
    {AcceptedEvent @@ c : c \in OptField("confidence", ConfidenceValues)}

InitJson == AtReturnOfAnalyze(JsonEvents, Strings(MaxLen))

NextJson == \E rc \in {"ok", "err", "raise"} : Rest(rc)

SpecJson == InitJson /\ [][NextJson]_vars

(***************************************************************************)
(* The worker when the broker hands it the same raw event, one whose image *)
(* exists, at every delivery.                                              *)
(***************************************************************************)
Redelivered == [topic |-> MQTT_TOPIC,
                payload |-> [kind |-> "object", obj |-> AcceptedEvent],
                echo |-> FALSE]

NextRedelivery ==
    \/ \E outcome \in {"ok", "refused", "raise"} : WorkerConnect(outcome)
    \/ Deliver(Redelivered)
    \/ ImageLoad
    \/ ThreadCreate
    \/ MessageCreate
    \/ RunProcess
    \/ ListMessages
    \/ ThreadDelete
    \/ \E rc \in {"ok", "err", "raise"} : Rest(rc)

SpecRedelivery == Init /\ [][NextRedelivery]_vars

(***************************************************************************)
(* The same worker when the connection to the broker can be lost between   *)
(* two messages and loop_forever reconnects.                               *)
(***************************************************************************)
NextReconnect ==
    \/ \E outcome \in {"ok", "refused", "raise"} : WorkerConnect(outcome)
    \/ WorkerDisconnect
    \/ Deliver(Redelivered)
    \/ ImageLoad
    \/ ThreadCreate
    \/ MessageCreate
    \/ RunProcess
    \/ ListMessages
    \/ ThreadDelete
    \/ \E rc \in {"ok", "err", "raise"} : Rest(rc)

SpecReconnect == Init /\ [][NextReconnect]_vars

(***************************************************************************)
(* The worker at the return of analyze_image for the events that already   *)
(* carry keys named as the enrichment keys, and one key of their own.      *)
(***************************************************************************)
FrameEvents ==
    {AcceptedEvent @@ ("defect_type" :> "unknown") @@ a @@ b @@ c @@ d :
        a \in OptField("agent_id", {"other_agent"}),
        b \in OptField("model_used", {"other_model"}),
        c \in OptField("analyzed_at", {7}),
        d \in OptField("reasoning", {<<"a">>})}

InitFrame == AtReturnOfAnalyze(FrameEvents, ErrTexts)

NextFrame == \E rc \in {"ok", "err", "raise"} : Rest(rc)

SpecFrame == InitFrame /\ [][NextFrame]_vars

(***************************************************************************)
(* The monitor (mqtt_listener.py).  A field of a payload is modelled by    *)
(* the type of its value: "str", "num", or "null".                         *)
(***************************************************************************)
MonitorObjects ==
    {a @@ b @@ c @@ d :
        a \in OptField("image_path", {"str", "num"}),
        b \in OptField("confidence", {"num", "str", "null"}),
        c \in OptField("reasoning", {"str", "num"}),
        d \in OptField("model_used", {"str", "null"})}

MonitorPayloads ==
    {[kind |-> k, obj |-> NoFields] : k \in {"bad_utf8", "bad_json", "non_object"}}
    \cup {[kind |-> "object", obj |-> o] : o \in MonitorObjects}

TypeOf(obj, k, default) == IF k \in DOMAIN obj THEN obj[k] ELSE default

\* lines 88-175: TRUE when the try block runs to its end
RendersOk(topic, p) ==
    /\ p.kind = "object"                               \* decode, json.loads, payload.get
    /\ TypeOf(p.obj, "image_path", "str") = "str"      \* '\\' in image_path, .split
    /\ IF topic = ENRICHED_TOPIC
       THEN /\ TypeOf(p.obj, "model_used", "str") = "str"  \* model_used.upper()
            /\ TypeOf(p.obj, "reasoning", "str") = "str"   \* reasoning.split()
       ELSE TypeOf(p.obj, "confidence", "num") = "num"     \* confidence >= 0.8

\* lines 177-182: the except clause decodes msg.payload once more
HandlerReturns(p) == p.kind # "bad_utf8"

\* how on_message ends: "rendered", "reported" (error printed) or "raised"
MonitorOnMessage(topic, p) ==
    IF RendersOk(topic, p) THEN "rendered"
    ELSE IF HandlerReturns(p) THEN "reported"
    ELSE "raised"

\* main lines 192-197 and on_connect lines 62-79: the two subscribe calls
\* carry no qos argument; when client.connect raises, main prints
\* "Connection failed" (lines 209-211)
MonitorConnect(ok) ==
    /\ m_pc = "connecting"
    /\ IF ok
       THEN /\ m_subs' = m_subs \cup {[filter |-> RAW_TOPIC, qos |-> DefaultQos],
                                      [filter |-> ENRICHED_TOPIC, qos |-> DefaultQos]}
            /\ m_pc' = "running"
       ELSE /\ m_pc' = "failed"
            /\ UNCHANGED m_subs
    /\ UNCHANGED <<m_msg, m_out, m_count>>
    /\ UNCHANGED <<wvars, pvars, ivars>>

\* a message arrives on one of the two subscribed topics; an exception
\* leaving on_message leaves loop_forever and ends main (lines 209-211)
MonitorMessage(topic, p) ==
    /\ m_pc = "running"
    /\ \E s \in m_subs : Matches(s.filter, topic)
    /\ m_count < MaxMonitorMsgs
    /\ m_count' = m_count + 1
    /\ m_msg' = [topic |-> topic, kind |-> p.kind, obj |-> p.obj]
    /\ m_out' = MonitorOnMessage(topic, p)
    /\ m_pc' = IF MonitorOnMessage(topic, p) = "raised" THEN "crashed" ELSE "running"
    /\ UNCHANGED m_subs
    /\ UNCHANGED <<wvars, pvars, ivars>>

\* Ctrl+C: lines 198-208
MonitorInterrupt ==
    /\ m_pc \in {"connecting", "running"}
    /\ m_pc' = "stopped"
    /\ UNCHANGED <<m_msg, m_out, m_count, m_subs>>
    /\ UNCHANGED <<wvars, pvars, ivars>>

NextMonitor ==
    \/ \E ok \in BOOLEAN : MonitorConnect(ok)
    \/ \E topic \in {RAW_TOPIC, ENRICHED_TOPIC}, p \in MonitorPayloads :
          MonitorMessage(topic, p)
    \/ MonitorInterrupt

SpecMonitor == Init /\ [][NextMonitor]_vars

(***************************************************************************)
(* The producer (cv_publisher.py).  An image path is a natural number,     *)
(* its rank in the order of the path strings.                              *)
(***************************************************************************)
Paths == 1..MaxImages

Range(s) == {s[i] : i \in 1..Len(s)}

\* glob.glob of *.jpg followed by glob.glob of *.png (lines 102-103): the
\* files of IMG_DIR in an order the file system chooses
Listings ==
    UNION {{s \in [1..k -> Paths] : \A i, j \in 1..k : s[i] = s[j] => i = j} :
              k \in 0..MaxImages}

RECURSIVE Insert(_, _)
Insert(x, s) ==
    IF s = <<>> THEN <<x>>
    ELSE IF x <= Head(s) THEN <<x>> \o s
    ELSE <<Head(s)>> \o Insert(x, Tail(s))

RECURSIVE SortedList(_)
SortedList(l) == IF l = <<>> THEN <<>> ELSE Insert(Head(l), SortedList(Tail(l)))

\* line 104: images = sorted(jpg_images + png_images)
unsorted(listing) == listing
sorted(listing) == SortedList(listing)

\* line 121: images[i % len(images)], as an index of a sequence from 1
ImageIndex(i, n) == (i % n) + 1

\* line 163: i += 1, after the try statement of lines 141-161
NextIndexOnSuccess(i, outcome) == IF outcome = "raise" THEN i ELSE i + 1
NextIndex(i, outcome) == i + 1

\* lines 97-99: the except clause of the connect prints and returns
AfterConnectFailedContinue == "scan"
AfterConnectFailed == "exited"

\* lines 92-99: client.connect(MQTT_BROKER, MQTT_PORT, 60)
ProducerConnect(ok) ==
    /\ p_pc = "start"
    /\ p_connects' = p_connects \o <<IF ok THEN "ok" ELSE "failed">>
    /\ p_pc' = IF ok THEN "scan" ELSE AfterConnectFailed
    /\ UNCHANGED <<p_images, p_i, p_message_count, p_attempts>>
    /\ UNCHANGED <<wvars, mvars, ivars>>

\* lines 101-116: the candidate list is built once; main returns when it is empty
ProducerScan(listing) ==
    /\ p_pc = "scan"
    /\ p_images' = sorted(listing)
    /\ p_pc' = IF sorted(listing) = <<>> THEN "exited" ELSE "loop"
    /\ UNCHANGED <<p_connects, p_i, p_message_count, p_attempts>>
    /\ UNCHANGED <<wvars, mvars, ivars>>

\* lines 118-164: one iteration of the loop.  outcome is how client.publish
\* ends: "ok", "err" (a return code other than success, which the producer
\* does not look at) or "raise"
ProducerTick(outcome) ==
    /\ p_pc = "loop"
    /\ p_message_count < MaxTicks
    /\ p_message_count' = p_message_count + 1
    /\ p_attempts' = Append(p_attempts,
                            [img |-> p_images[ImageIndex(p_i, Len(p_images))],
                             topic |-> MQTT_TOPIC,
                             outcome |-> outcome,
                             printed |-> IF outcome = "raise" THEN "failed"
                                                              ELSE "published"])
    /\ p_i' = NextIndex(p_i, outcome)
    /\ UNCHANGED <<p_pc, p_connects, p_images>>
    /\ UNCHANGED <<wvars, mvars, ivars>>

\* lines 72-77 and 171-176: SIGINT runs signal_handler, whose sys.exit(0)
\* leaves main through the finally clause
ProducerInterrupt ==
    /\ p_pc \in {"start", "scan", "loop"}
    /\ p_pc' = "stopped"
    /\ UNCHANGED <<p_connects, p_images, p_i, p_message_count, p_attempts>>
    /\ UNCHANGED <<wvars, mvars, ivars>>

NextProducer ==
    \/ \E ok \in BOOLEAN : ProducerConnect(ok)
    \/ \E listing \in Listings : ProducerScan(listing)
    \/ \E outcome \in {"ok", "err", "raise"} : ProducerTick(outcome)
    \/ ProducerInterrupt

SpecProducer == Init /\ [][NextProducer]_vars

(***************************************************************************)
(* Image pre-processing (image_to_base64_url, lines 108-124).  An image is *)
(* the pair of its width and height in pixels.                             *)
(***************************************************************************)
\* line 111
max_size == 1024

DimValues == {1, 2, 3, 7, 512, 1023, 1024, 1025, 1536, 2048, 3000, 4096, 5000}

Abs(n) == IF n < 0 THEN 0 - n ELSE n
Max2(a, b) == IF a >= b THEN a ELSE b
Min2(a, b) == IF a <= b THEN a ELSE b
Floor(num, den) == num \div den
Ceil(num, den) == IF num % den = 0 THEN num \div den ELSE (num \div den) + 1

\* Image.thumbnail((max_size, max_size)) of line 113, for an image wider
\* than high or not: the box edge for the longer edge, and for the other
\* edge the floor or the ceiling of its scaled value, whichever keeps the
\* aspect ratio w/h closer (the floor on a tie), and at least 1
ThumbnailWidth(w, h) ==
    LET f == Floor(max_size * w, h)
        c == Ceil(max_size * w, h)
        \* |w/h - n/max_size|, times h * max_size
        key(n) == Abs(w * max_size - n * h)
    IN Max2(IF key(f) <= key(c) THEN f ELSE c, 1)

ThumbnailHeight(w, h) ==
    LET f == Floor(max_size * h, w)
        c == Ceil(max_size * h, w)
        \* |w/h - max_size/n|, times h; 0 when n is 0
        num(n) == Abs(w * n - max_size * h)
    IN Max2(IF f = 0 \/ num(f) * c <= num(c) * f THEN f ELSE c, 1)

ThumbnailToBox(w, h) == <<max_size, max_size>>
Thumbnail(w, h) ==
    IF max_size >= w /\ max_size >= h THEN <<w, h>>
    ELSE IF w <= h THEN <<ThumbnailWidth(w, h), max_size>>
    ELSE <<max_size, ThumbnailHeight(w, h)>>

\* lines 112-123: the size of the JPEG that is encoded
EncodedSize(w, h) == IF Max2(w, h) > max_size THEN Thumbnail(w, h) ELSE <<w, h>>

InitImage ==
    /\ pc = "a_image"
    /\ msg = [kind |-> "object", obj |-> AcceptedEvent]
    /\ message_count = 1
    /\ now = 0
    /\ received_at = 0
    /\ thread = "none"
    /\ runs = 0
    /\ fault = "none"
    /\ ret = NoRet
    /\ log = <<"received", "processing">>
    /\ out = <<>>
    /\ w_conn = "connected"
    /\ w_subs = {[filter |-> MQTT_INPUT_TOPIC, qos |-> WorkerSubscribeQos]}
    /\ connects = 1
    /\ uncalled = 0
    /\ unpublished = 1
    /\ enriching = {1}
    /\ from_self = FALSE
    /\ signal_at = "none"
    /\ InitMonitor
    /\ InitProducer
    /\ img_size \in DimValues \X DimValues
    /\ enc_size = <<0, 0>>

\* lines 109-123: open, shrink when needed, convert, save as JPEG
ImageEncode ==
    /\ pc = "a_image"
    /\ enc_size = <<0, 0>>
    /\ enc_size' = EncodedSize(img_size[1], img_size[2])
    /\ UNCHANGED <<img_size, wvars, mvars, pvars>>

NextImage == ImageEncode

SpecImage == InitImage /\ [][NextImage]_vars

(***************************************************************************)
(* Properties.                                                             *)
(***************************************************************************)
\* on_message has returned for the delivery held in msg
Done == pc = "idle" /\ message_count > 0

\* the payload is a JSON object whose image_path names an existing file
Accepted ==
    /\ msg.kind = "object"
    /\ "image_path" \in DOMAIN msg.obj
    /\ msg.obj["image_path"] \in ExistingFiles

\* the payload is a JSON object whose image_path is absent, null, empty or
\* names no file
MissingImage ==
    /\ msg.kind = "object"
    /\ \/ "image_path" \notin DOMAIN msg.obj
       \/ msg.obj["image_path"] \in {NULL, EMPTY, "missing.jpg"}

\* the publish calls of this delivery that handed a message to the broker
OnChannel == SelectSeq(out, LAMBDA r : r.rc = "ok")

HasAllKeys(payload) == DOMAIN msg.obj \cup EnrichmentKeys \subseteq DOMAIN payload

Count(seq, x) == Cardinality({i \in 1..Len(seq) : seq[i] = x})

Contains(text, cs) == \E i \in 1..Len(text) : text[i] \in cs

\* C1 as stated: once on_message has returned for an object payload whose
\* image_path names an existing file, exactly one message of this delivery is
\* on the enriched channel, and it holds every key of the input event plus
\* reasoning, model_used, agent_id and analyzed_at.
C1_ExactlyOneOnChannel ==
    Done /\ Accepted =>
        /\ Len(OnChannel) = 1
        /\ HasAllKeys(OnChannel[1].payload)

\* C1 amended: for such a payload the worker makes exactly one publish call,
\* its payload holds every key of the input event plus the four enrichment
\* keys, and the message is on the enriched channel exactly when that call
\* returned success.
C1_ExactlyOnePublishCall ==
    Done /\ Accepted =>
        /\ Len(out) = 1
        /\ HasAllKeys(out[1].payload)
        /\ Len(OnChannel) = (IF out[1].rc = "ok" THEN 1 ELSE 0)

C1_Witness ==
    /\ Done /\ Accepted
    /\ "timestamp" \in DOMAIN msg.obj
    /\ fault = "none"
    /\ Len(OnChannel) = 1
    /\ DOMAIN OnChannel[1].payload =
          {"image_path", "timestamp", "line_id"} \cup EnrichmentKeys

\* C2: once on_message has returned for an object payload whose image_path is
\* absent, null, empty or names no existing file, no publish call was made
\* (no enriched event, no error event) and exactly one drop notice was logged.
C2_MissingImageDropped ==
    Done /\ MissingImage =>
        /\ out = <<>>
        /\ Count(log, "drop") = 1

C2_Witness ==
    /\ Done
    /\ msg.kind = "object"
    /\ Get(msg.obj, "image_path") = "missing.jpg"
    /\ log = <<"received", "drop">>
    /\ out = <<>>

\* C3: the reasoning field of every enriched event handed to publish holds no
\* newline, carriage return, tab, double quote or backslash, whatever text
\* the reasoning call returned.
C3_NoRawSpecialChars ==
    \A i \in 1..Len(out) :
        ~Contains(out[i].payload["reasoning"], {"LF", "CR", "TAB", "DQ", "BS"})

C3_Witness ==
    /\ Len(out) = 1
    /\ ret.value = <<"DQ", "LF", "BS">>
    /\ out[1].payload["reasoning"] = <<"SQ", SP, "SL">>

\* C4: the reasoning field of every enriched event handed to publish is a
\* non-empty single-line text, whatever text the backend returned.
C4_ReasoningNonEmptySingleLine ==
    \A i \in 1..Len(out) :
        /\ out[i].payload["reasoning"] # <<>>
        /\ ~Contains(out[i].payload["reasoning"], {"LF", "CR"})

\* C5 as stated: in every enriched event handed to publish, analyzed_at is at
\* or after the timestamp of the same event, whatever timestamp came in.
C5_AnalyzedAtNotBeforeTimestamp ==
    \A i \in 1..Len(out) :
        "timestamp" \in DOMAIN msg.obj =>
            out[i].payload["analyzed_at"] >= out[i].payload["timestamp"]

\* C5 amended: analyzed_at is at or after the timestamp of the same event
\* whenever that timestamp is not later than the worker's clock at the
\* moment the message was delivered.
C5_AnalyzedAtNotBeforePastTimestamp ==
    \A i \in 1..Len(out) :
        ("timestamp" \in DOMAIN msg.obj /\ msg.obj["timestamp"] <= received_at) =>
            out[i].payload["analyzed_at"] >= out[i].payload["timestamp"]

C5_Witness ==
    /\ Len(out) = 1
    /\ "timestamp" \in DOMAIN msg.obj
    /\ msg.obj["timestamp"] = 1
    /\ received_at = 1
    /\ out[1].payload["analyzed_at"] = 1

\* the external reasoning service failed: a call to it raised, or the run
\* ended with status failed
ServiceFailed == fault \in {"thread", "message", "run", "list", "run_failed"}

ErrorPrefix == IF fault = "run_failed" THEN AgentRunFailedPrefix ELSE ImageAnalysisFailedPrefix

\* the reasoning text opens with the error message of the failure
CarriesError(reasoning) == reasoning # <<>> /\ reasoning[1] = ErrorPrefix

\* C6 as stated: when the reasoning service failed for an event whose image
\* exists, one enriched event is on the enriched channel, its reasoning
\* carries the error string, and no key other than the four enrichment keys
\* is added (no distinct status).
C6_ServiceFailureOnChannel ==
    Done /\ Accepted /\ ServiceFailed =>
        /\ Len(OnChannel) = 1
        /\ CarriesError(OnChannel[1].payload["reasoning"])
        /\ DOMAIN OnChannel[1].payload = DOMAIN msg.obj \cup EnrichmentKeys

\* C6 amended: when the reasoning service failed for an event whose image
\* exists, the worker still makes its one publish call, with an enriched
\* event whose reasoning carries the error string and which has no key
\* other than the input's and the four enrichment keys; the event is on the
\* channel when that call returned success.
C6_ServiceFailurePublished ==
    Done /\ Accepted /\ ServiceFailed =>
        /\ Len(out) = 1
        /\ CarriesError(out[1].payload["reasoning"])
        /\ DOMAIN out[1].payload = DOMAIN msg.obj \cup EnrichmentKeys
        /\ (out[1].rc = "ok" => Len(OnChannel) = 1)

C6_Witness ==
    /\ Done /\ Accepted
    /\ fault = "run_failed"
    /\ Len(OnChannel) = 1
    /\ OnChannel[1].payload["reasoning"] = <<AgentRunFailedPrefix, SP, "SQ">>

\* C7: for every delivery the reasoning run is started at most once, also
\* after a run that failed or raised.
C7_AtMostOneRun == runs <= 1

C7_Witness ==
    /\ Done
    /\ fault \in {"run", "run_failed"}
    /\ runs = 1

\* C8: whenever analyze_image has handed control back to on_message, it has
\* returned (not raised) a text, which json.dumps can serialize, whatever the
\* outcome of each of its steps.
C8_AnalyzeImageReturnsText ==
    pc = "o_rest" =>
        /\ ret.kind = "str"
        /\ ret.value \in Seq(Chars)

C8_Witness ==
    /\ pc = "o_rest"
    /\ fault = "list"
    /\ ret.kind = "str"

\* C9: once analyze_image has returned, a thread it created has had its
\* delete attempted, whatever the outcome of the analysis.
C9_ThreadReleased ==
    (pc \in {"o_rest", "idle"} /\ thread # "none") =>
        thread \in {"deleted", "delete_failed"}

\* C10: for every payload the monitor's on_message renders it or reports the
\* error, and returns without raising, so the monitor keeps running.
C10_MonitorNeverRaises == m_out # "raised" /\ m_pc # "crashed"


\* the payload is undecodable bytes, invalid JSON, or JSON that is no object
Malformed == msg.kind \in {"bad_utf8", "bad_json", "non_object"}

\* C11: once a malformed payload (undecodable bytes, invalid JSON, JSON that
\* is no object) has been delivered, and as long as no interrupt arrives,
\* on_message has logged one error, made no publish call and returned, the
\* worker is still connected and waiting, and whenever the next delivery
\* names an existing image its analysis starts as for any other delivery.
C11_MalformedPayloadSurvived ==
    /\ [](message_count > 0 /\ Malformed /\ signal_at = "none" =>
            /\ pc = "idle"
            /\ Count(log, "error") = 1
            /\ out = <<>>
            /\ w_conn = "connected")
    /\ [][(message_count > 0 /\ Malformed /\ message_count' = message_count + 1
           /\ NamesExistingImage(msg')) =>
              (pc' = "a_image" /\ log' = <<"received", "processing">>)]_vars

C11_Witness ==
    /\ message_count = 2
    /\ msg.kind = "bad_utf8"
    /\ pc = "idle"
    /\ log = <<"received", "error">>
    /\ out = <<>>

\* the candidate images of the producer
Candidates == Range(p_images)

\* the j-th path of S in path order, j from 1
NthSmallest(S, j) == CHOOSE x \in S : Cardinality({y \in S : y < x}) = j - 1

\* the path that follows x in the cycle over S
CycleNext(S, x) ==
    IF \A y \in S : y <= x
    THEN CHOOSE y \in S : \A z \in S : y <= z
    ELSE CHOOSE y \in S : y > x /\ \A z \in S : z > x => y <= z

\* C12: with n candidate images, the k-th tick of the producer (k = 0, 1, ...)
\* uses the image at index k mod n of the candidates in path order, so the
\* image after the last one is the first one.
C12_SortedCyclicSelection ==
    \A k \in 1..Len(p_attempts) :
        p_attempts[k].img =
            NthSmallest(Candidates, ((k - 1) % Cardinality(Candidates)) + 1)

C12_Witness ==
    /\ Len(p_images) = 3
    /\ Len(p_attempts) = 4
    /\ p_attempts[3].img = 3
    /\ p_attempts[4].img = 1

\* C13: when a publish call of the producer raises, the failure is printed,
\* the loop is not left, and the next tick uses the next image of the cycle:
\* the index has advanced by one per tick whatever the publish calls did.
C13_PublishFailureAdvances ==
    /\ p_i = Len(p_attempts)
    /\ \A k \in 1..Len(p_attempts) :
          p_attempts[k].outcome = "raise" =>
             /\ p_attempts[k].printed = "failed"
             /\ k < Len(p_attempts) =>
                   p_attempts[k + 1].img = CycleNext(Candidates, p_attempts[k].img)
             /\ k = Len(p_attempts) => p_pc \in {"loop", "stopped"}

C13_Witness ==
    /\ Len(p_images) = 2
    /\ Len(p_attempts) = 3
    /\ p_attempts[1].outcome = "raise"
    /\ p_attempts[2].outcome = "raise"
    /\ p_attempts[2].img = 2
    /\ p_attempts[3].img = 1
    /\ p_pc = "loop"

\* C14: when the producer's connect call fails, the producer has terminated
\* without building its image list, without a publish call and without a
\* second connect call.
C14_ConnectFailureExits ==
    (p_connects # <<>> /\ p_connects[1] = "failed") =>
        /\ p_pc = "exited"
        /\ p_attempts = <<>>
        /\ p_images = <<>>
        /\ Len(p_connects) = 1

C14_Witness ==
    /\ p_connects = <<"failed">>
    /\ p_pc = "exited"
    /\ p_attempts = <<>>

\* C15: at no time are two deliveries in the enriching state; while the
\* analysis of a delivery is in flight that delivery is the last one
\* delivered and no further delivery is taken; and every publish call is
\* for the last delivery, so events are published in delivery order.
C15_StrictlySerialized ==
    /\ [](/\ Cardinality(enriching) <= 1
          /\ pc \in InFlight \cup {"o_rest"} => enriching = {message_count}
          /\ \A i \in 1..Len(out) : out[i].id = message_count)
    /\ [][(pc \in InFlight \cup {"o_rest"}) => (message_count' = message_count)]_vars

C15_Witness ==
    /\ message_count = 2
    /\ pc = "a_run"
    /\ enriching = {2}
    /\ out = <<>>

C17_InFlightCallCompletes ==
    (pc = "exited" /\ signal_at = "a_run") => ret.kind # "none"

\* C18: every subscription that covers the raw topic, the worker's and the
\* monitor's, was made at QoS 1, and every publish call on the enriched
\* topic was made at QoS 0.
C18_QosTiers ==
    /\ \A s \in w_subs \cup m_subs : Matches(s.filter, RAW_TOPIC) => s.qos = 1
    /\ \A i \in 1..Len(out) : out[i].topic = ENRICHED_TOPIC => out[i].qos = 0

\* C19: the worker subscribes to the raw topic and to nothing that covers
\* the enriched topic, publishes on the enriched topic only, is never handed
\* a message it published itself, and has made at most one publish call per
\* delivery, so never more publish calls than deliveries.
C19_StrictlyForward ==
    /\ \A s \in w_subs : s.filter = RAW_TOPIC /\ ~Matches(s.filter, ENRICHED_TOPIC)
    /\ \A i \in 1..Len(out) : out[i].topic = ENRICHED_TOPIC
    /\ from_self = FALSE
    /\ Len(out) <= 1
    /\ out # <<>> => message_count >= 1
    /\ unpublished >= 0

C19_Witness ==
    /\ pc = "idle"
    /\ w_subs # {}
    /\ message_count = 1
    /\ Len(OnChannel) = 1
    /\ OnChannel[1].topic = ENRICHED_TOPIC
    /\ from_self = FALSE

\* a JSON text: no literal of it is the token NaN
IsJson(text) == \A k \in DOMAIN text : text[k].kind \in {"string", "number"}

\* equality of two parsed objects, field for field; a float that is not a
\* number is equal to nothing
EqualFieldForField(x, y) ==
    /\ DOMAIN x = DOMAIN y
    /\ \A k \in DOMAIN x : x[k] = y[k] /\ ~(k = "confidence" /\ x[k] = NAN)

\* C20: every payload handed to publish is a JSON text, and parsing it,
\* serializing the result and parsing again gives an object equal field for
\* field to the first parse, for every event the worker accepts.
C20_PublishedJsonRoundTrips ==
    \A i \in 1..Len(out) :
        /\ IsJson(out[i].json)
        /\ LET first == JsonLoads(out[i].json) IN
           EqualFieldForField(JsonLoads(JsonDumps(first)), first)

\* C21: the encoded image is never larger than the input in either edge; an
\* input with both edges at most 1024 is encoded at its own size; for an
\* input with an edge above 1024 the longest encoded edge is 1024 and the
\* other edge is within one pixel of the input's other edge scaled by the
\* same factor.
C21_NeverUpsamples ==
    enc_size # <<0, 0>> =>
        LET w == img_size[1]
            h == img_size[2]
            long == Max2(w, h)
            short == Min2(w, h)
            other == IF w >= h THEN enc_size[2] ELSE enc_size[1]
        IN /\ enc_size[1] <= w /\ enc_size[2] <= h
           /\ (w <= 1024 /\ h <= 1024) => enc_size = img_size
           /\ (w > 1024 \/ h > 1024) =>
                 /\ Max2(enc_size[1], enc_size[2]) = 1024
                 /\ Abs(other * long - 1024 * short) < long

C21_Witness ==
    /\ img_size = <<3000, 2048>>
    /\ enc_size = <<1024, 699>>

\* C22: whichever component has ended was ended by a failed connect at
\* startup or by a shutdown signal.
C22_OnlyStartupOrSignalEnds ==
    /\ m_pc \notin {"connecting", "running"} => m_pc \in {"failed", "stopped"}
    /\ p_pc \notin {"start", "scan", "loop"} =>
          (p_pc = "stopped" \/ p_connects = <<"failed">>)
    /\ pc = "exited" => (signal_at # "none" \/ connects = 0)

\* the publish call of this delivery returned a code other than success, or
\* raised
PublishFailed == out # <<>> /\ out[1].rc \in {"err", "raise"}

\* C23: no delivery has more than one publish call; when the call failed or
\* raised, exactly one failure notice is logged, the step of the call is the
\* one that returns from on_message, and the next delivery naming an existing
\* image starts its analysis.
C23_PublishNotRetried ==
    /\ [](Len(out) <= 1)
    /\ [](Done /\ PublishFailed =>
             /\ Count(log, "publish_failed") + Count(log, "publish_exception") = 1
             /\ log[Len(log)] = "completed")
    /\ [][(out' # out /\ PublishFailed') => (pc' = "idle")]_vars
    /\ [][(Done /\ PublishFailed /\ message_count' = message_count + 1
           /\ NamesExistingImage(msg')) => (pc' = "a_image")]_vars

C23_Witness ==
    /\ Done
    /\ PublishFailed
    /\ out[1].rc = "raise"
    /\ log = <<"received", "processing", "validated", "publish_exception", "completed">>

\* C24: from a state in which the reasoning run is in flight, every step
\* that is not the return of the run leaves the worker in the call (or ends
\* the process), takes no further delivery and publishes nothing, however
\* much time passes.
C24_HangBlocksWorker ==
    [][(pc = "a_run" /\ runs' = runs) =>
          (/\ pc' \in {"a_run", "exited"}
           /\ message_count' = message_count
           /\ msg' = msg
           /\ out' = out
           /\ out = <<>>)]_vars

C24_Witness ==
    /\ pc = "a_run"
    /\ runs = 0
    /\ received_at = 0
    /\ now = MaxTime
    /\ message_count = 1

\* C25: the step that attempts the thread delete leaves the text and the
\* outcome of the analysis as they were, whether the delete succeeds or
\* fails; and when the delete failed the worker makes its publish call with
\* the sanitized response as reasoning.
C25_DeleteFailureNotPropagated ==
    /\ [][(pc = "a_delete" /\ pc' = "o_rest") => (ret' = ret /\ fault' = fault)]_vars
    /\ [](Done /\ thread = "delete_failed" =>
             /\ fault = "none"
             /\ ret.kind = "str"
             /\ Len(out) = 1
             /\ out[1].payload["reasoning"] = Sanitize(ret.value))

C25_Witness ==
    /\ Done
    /\ thread = "delete_failed"
    /\ ret.value = <<"a">>
    /\ Len(OnChannel) = 1
    /\ OnChannel[1].payload["reasoning"] = <<"a">>

\* C26: the reasoning of every enriched event handed to publish has no
\* whitespace at its start or end, no control character, and no two
\* adjacent whitespace characters, whatever text the reasoning call returned.
C26_WhitespaceCollapsed ==
    \A i \in 1..Len(out) :
        LET r == out[i].payload["reasoning"] IN
        /\ r # <<>> => ~IsSpace(r[1]) /\ ~IsSpace(r[Len(r)])
        /\ \A j \in 1..Len(r) : ~IsControl(r[j])
        /\ \A j \in 1..(Len(r) - 1) : ~(IsSpace(r[j]) /\ IsSpace(r[j + 1]))

C26_Witness ==
    /\ Len(out) = 1
    /\ fault = "run_failed"
    /\ ret.value = <<AgentRunFailedPrefix, SP, "LF", "NBSP", "a">>
    /\ out[1].payload["reasoning"] = <<AgentRunFailedPrefix, SP, "a">>

\* C27: in every enriched event handed to publish agent_id is AGENT_ID and
\* model_used is the fixed tag, also when the incoming event carries keys
\* named as the enrichment keys, and every other key of the incoming event
\* is there with its value.
C27_EnrichmentKeysOverride ==
    \A i \in 1..Len(out) :
        /\ out[i].payload["agent_id"] = AGENT_ID
        /\ out[i].payload["model_used"] = MODEL_USED
        /\ \A k \in DOMAIN msg.obj \ EnrichmentKeys :
              k \in DOMAIN out[i].payload /\ out[i].payload[k] = msg.obj[k]

C27_Witness ==
    /\ Len(out) = 1
    /\ EnrichmentKeys \subseteq DOMAIN msg.obj
    /\ msg.obj["agent_id"] = "other_agent"
    /\ out[1].payload["agent_id"] = AGENT_ID
    /\ out[1].payload["defect_type"] = "unknown"

\* C28: for a delivery that is dropped (image_path absent, null, empty or
\* naming no file) or malformed, analyze_image is not entered: no thread is
\* created, no run is started, nothing is returned and no publish call is
\* made.
C28_BackendNotInvoked ==
    (message_count > 0 /\ (MissingImage \/ Malformed)) =>
        /\ pc \notin InFlight \cup {"o_rest"}
        /\ thread = "none"
        /\ runs = 0
        /\ ret = NoRet
        /\ out = <<>>
        /\ enriching = {}

C28_Witness ==
    /\ Done
    /\ msg.kind = "object"
    /\ Get(msg.obj, "image_path") = EMPTY
    /\ log = <<"received", "drop">>
    /\ thread = "none"
    /\ runs = 0

\* C29: whenever the worker is connected it has subscribed to the raw topic
\* on that connection; every successful connect, the first and each
\* reconnect, makes the subscribe call, and no subscribe call is made
\* otherwise.
C29_SubscribedWheneverConnected ==
    /\ [](w_conn = "connected" => \E s \in w_subs : s.filter = RAW_TOPIC)
    /\ [][(connects' = connects + 1) =>
             (\E s \in w_subs' : s.filter = RAW_TOPIC)]_vars
    /\ [][(w_subs' # w_subs /\ w_subs' # {}) => (connects' = connects + 1)]_vars

C29_Witness ==
    /\ connects = 2
    /\ w_conn = "connected"
    /\ w_subs # {}
    /\ message_count = 1
    /\ pc = "idle"

\* C30: sanitizing the reasoning of an enriched event once more returns it
\* unchanged.
C30_SanitizeIdempotent ==
    \A i \in 1..Len(out) :
        Sanitize(out[i].payload["reasoning"]) = out[i].payload["reasoning"]

C30_Witness ==
    /\ Len(out) = 1
    /\ ret.value = <<"BS", "CTL", "a">>
    /\ out[1].payload["reasoning"] = <<"SL", SP, "a">>
=============================================================================
